---- MODULE Spec2Model ----
(***************************************************************************)
(* The blog content pipeline of brendonovich.dev:                          *)
(*   content collection "blog"  ->  visiblePosts()  ->  rss.xml get()      *)
(*                                                  ->  getStaticPaths()   *)
(*                                                      -> page render     *)
(* Posts are the entries of the "blog" collection (schema in config.ts);   *)
(* the build mode is import.meta.env.MODE.                                 *)
(***************************************************************************)
EXTENDS Integers, Sequences, FiniteSets, TLC

VARIABLES
    store,        \* getCollection("blog"): the entries, in listing order
    mode,         \* import.meta.env.MODE
    rssPc,        \* rss.xml.ts: "init" -> "loaded" (module evaluated) -> "done" | "error"
    rssPosts,     \* rss.xml.ts: const posts
    feed,         \* the options handed to rss() by get()
    pagesPc,      \* [slug].astro: "init" -> "paths" (getStaticPaths returned) | "error"
    staticPaths,  \* the array returned by getStaticPaths()
    pages,        \* the detail pages rendered so far, in path order
    annotations,  \* slugs of the posts post.render() ran the remark plugins on, in order
    hasWindow,    \* Welcome.tsx: typeof window !== "undefined"
    scrollY,      \* window.scrollY, in px
    innerHeight,  \* window.innerHeight, in px
    listeners,    \* the window's registered "scroll" listeners
    welcomePc,    \* Welcome: "unmounted" -> "mounted" -> "disposed", or "ssr"
    rendered,     \* what Welcome() returned: "none" (not called), "null", "view"
    scroll,       \* the scroll signal
    scrollPercentage,  \* memo
    headingSize   \* memo

pipelineVars == <<store, mode, rssPc, rssPosts, feed, pagesPc, staticPaths,
                  pages, annotations>>

welcomeVars == <<hasWindow, scrollY, innerHeight, listeners, welcomePc,
                 rendered, scroll, scrollPercentage, headingSize>>

vars == <<pipelineVars, welcomeVars>>

----------------------------------------------------------------------------
(* Bounds of the model *)

MaxPosts == 3
MaxReadingPosts == 2
MaxLines == 2

----------------------------------------------------------------------------
(* The data *)

Slugs == {"a", "b", "c", "d"}

SlugOrder == <<"a", "b", "c", "d">>

Modes == {"production", "development"}

\* Other values import.meta.env.MODE can hold (vite --mode), among them one
\* that differs from "development" in case only.
BuildModes == Modes \cup {"staging", "Development"}

\* A body is a sequence of lines, each line given by the number of
\* whitespace-delimited tokens it holds; the empty body has no line.
LineWords == {1, 199, 200}

Bodies == UNION {[1..n -> LineWords] : n \in 0..MaxLines}

\* Documents of the collection: front matter (title, byline, date) and body.
Docs ==
    { [title |-> "T1", byline |-> "B1", date |-> "31 Dec 2022", body |-> <<>>],
      [title |-> "T2", byline |-> "B2", date |-> "29 Dec 2022", body |-> <<199>>],
      [title |-> "T3", byline |-> "B3", date |-> "someday",     body |-> <<200, 1>>] }

\* The schema of the collection: draft is a boolean, the rest are strings.
blog(slug, draft, doc) ==
    [ slug |-> slug,
      data |-> [draft |-> draft, title |-> doc.title,
                byline |-> doc.byline, date |-> doc.date],
      body |-> doc.body ]

Posts == {blog(s, d, doc) : s \in Slugs, d \in BOOLEAN, doc \in Docs}

UniqueSlugs(seq) ==
    \A i, j \in 1..Len(seq) : seq[i].slug = seq[j].slug => i = j

\* Every collection the content loader can supply: slugs come from file
\* names, so they are unique.
Stores ==
    {s \in UNION {[1..n -> Posts] : n \in 0..MaxPosts} : UniqueSlugs(s)}

\* Collections for the reading-time study: posts a, b, ... with any body.
ReadingPosts(i) ==
    {blog(SlugOrder[i], TRUE, [title |-> "T1", byline |-> "B1",
                               date |-> "31 Dec 2022", body |-> b]) : b \in Bodies}

ReadingStores ==
    UNION { {s \in [1..n -> UNION {ReadingPosts(i) : i \in 1..n}] :
                \A i \in 1..n : s[i].slug = SlugOrder[i]}
            : n \in 0..MaxReadingPosts }

----------------------------------------------------------------------------
(* src/pages/blog/utils.ts *)

\* Variants of the callback (used to test the properties below).
shouldPublishHidesDrafts(p, m) == ~p.data.draft \/ m = "development"

shouldPublishDraftOnly(p, m) == p.data.draft

shouldPublishUnlessProduction(p, m) == p.data.draft \/ m # "production"

shouldPublishDated(p, m) ==
    p.data.draft \/ m = "development" \/ p.data.date = "31 Dec 2022"

\* The filter callback: p.data.draft || import.meta.env.MODE === "development"
shouldPublish(p, m) == p.data.draft \/ m = "development"

RECURSIVE Reverse(_)
Reverse(seq) == IF seq = <<>> THEN <<>> ELSE Append(Reverse(Tail(seq)), Head(seq))

\* Variants of the filter (used to test the properties below).
visiblePostsNewestFirst(collection, m) ==
    [ok |-> TRUE,
     posts |-> Reverse(SelectSeq(collection, LAMBDA p : shouldPublish(p, m)))]

visiblePostsRejectsEmpty(collection, m) ==
    [ok |-> collection # <<>>,
     posts |-> SelectSeq(collection, LAMBDA p : shouldPublish(p, m))]

visiblePostsFallback(collection, m) ==
    LET kept == SelectSeq(collection, LAMBDA p : shouldPublish(p, m))
    IN  [ok |-> TRUE, posts |-> IF kept = <<>> THEN collection ELSE kept]

\* Array.prototype.filter: keeps the elements the callback accepts, in order.
\* The outcome of the async function is a fulfilled promise holding the array
\* (ok) or a rejection (not ok).
visiblePosts(collection, m) ==
    [ok |-> TRUE, posts |-> SelectSeq(collection, LAMBDA p : shouldPublish(p, m))]

----------------------------------------------------------------------------
(* src/pages/rss.xml.ts *)

SITE == "https://www.brendonovich.dev"

\* new Date(string): a time value, or Invalid Date when the string does not parse.
ValidDates == {"31 Dec 2022", "29 Dec 2022"}

NewDate(str) == IF str \in ValidDates THEN [valid |-> TRUE, of |-> str]
                ELSE [valid |-> FALSE, of |-> "Invalid Date"]

rssItemAbsoluteLink(post) ==
    [ link    |-> "/blog/" \o post.slug,
      title   |-> post.data.title,
      pubDate |-> NewDate(post.data.date) ]

rssItem(post) ==
    [ link    |-> "blog/" \o post.slug,
      title   |-> post.data.title,
      pubDate |-> NewDate(post.data.date) ]

\* Variants of the item list (used to test the properties below).
rssItemsSkipInvalid(posts) ==
    LET all == [i \in 1..Len(posts) |-> rssItem(posts[i])]
    IN  SelectSeq(all, LAMBDA it : it.pubDate.valid)

rssItemsNewestFirst(posts) ==
    Reverse([i \in 1..Len(posts) |-> rssItem(posts[i])])

rssItemsByTitle(posts) ==
    [i \in 1..Len(posts) |->
        [rssItem(posts[i]) EXCEPT !.link = "blog/" \o posts[i].data.title]]

rssItems(posts) == [i \in 1..Len(posts) |-> rssItem(posts[i])]

rssOptions(posts) ==
    [ title       |-> "Brendonovich's Blog",
      description |-> "Posts about technology",
      site        |-> SITE,
      stylesheet  |-> "/rss/styles.xsl",
      items       |-> rssItems(posts) ]

NoFeed == [title |-> "", description |-> "", site |-> "", stylesheet |-> "",
           items |-> <<>>]

----------------------------------------------------------------------------
(* src/pages/blog/[slug].astro *)

staticPathByTitle(post) ==
    [params |-> [slug |-> post.data.title], props |-> [post |-> post]]

staticPath(post) == [params |-> [slug |-> post.slug], props |-> [post |-> post]]

getStaticPaths(posts) == [i \in 1..Len(posts) |-> staticPath(posts[i])]

----------------------------------------------------------------------------
(* src/utils/reading-time.mjs (remark plugin), used by post.render() *)

WordsPerMinute == 200

RECURSIVE wordCount(_)
wordCount(body) ==
    IF body = <<>> THEN 0 ELSE Head(body) + wordCount(Tail(body))

readingMinutesNoFloor(words) == (words + WordsPerMinute - 1) \div WordsPerMinute

readingMinutesRoundedDown(words) ==
    IF words = 0 THEN 1 ELSE words \div WordsPerMinute

\* words / WordsPerMinute rounded up, and never below one minute
readingMinutes(words) ==
    LET up == (words + WordsPerMinute - 1) \div WordsPerMinute
    IN  IF up < 1 THEN 1 ELSE up

remarkReadingTime(body) ==
    LET words == wordCount(body)
        minutes == readingMinutes(words)
    IN  [words |-> words, minutes |-> minutes,
         text |-> ToString(minutes) \o " min read"]

\* post.render(): the markdown pipeline runs remarkReadingTime on the post and
\* hands its result back as injectedFrontmatter.
postRenderTwice(log, post) == log \o <<post.slug, post.slug>>

postRender(log, post) == Append(log, post.slug)

\* Variant: the reading time is written into the post's own data.
renderPageInPlace(path) ==
    LET post == path.props.post
        stats == remarkReadingTime(post.body)
        data == post.data
    IN  [ slug        |-> path.params.slug,
          title       |-> post.data.title,
          byline      |-> post.data.byline,
          date        |-> post.data.date,
          readingTime |-> stats.text,
          minutes     |-> stats.minutes,
          words       |-> stats.words,
          post        |-> [post EXCEPT !.data =
                              [draft |-> data.draft, title |-> data.title,
                               byline |-> data.byline, date |-> data.date,
                               readingTime |-> stats.text]] ]

\* The detail page rendered from one static path.
renderPage(path) ==
    LET post == path.props.post
        stats == remarkReadingTime(post.body)
    IN  [ slug        |-> path.params.slug,
          title       |-> post.data.title,
          byline      |-> post.data.byline,
          date        |-> post.data.date,
          readingTime |-> stats.text,
          minutes     |-> stats.minutes,
          words       |-> stats.words,
          post        |-> post ]

----------------------------------------------------------------------------
(* src/components/Welcome.tsx *)

\* window.scrollY and window.innerHeight the browser can report, in px.
ScrollYs == {-2, 0, 5, 10, 11, 20, 29, 30, 31, 90}

InnerHeights == {0, 50, 100}

\* JavaScript numbers: finite values are kept exact as num/den with den > 0;
\* NaN and the infinities are values of their own.
Fin(n, d) == [kind |-> "fin", num |-> n, den |-> d]

NaN == [kind |-> "nan", num |-> 0, den |-> 1]

PosInf == [kind |-> "posinf", num |-> 1, den |-> 1]

NegInf == [kind |-> "neginf", num |-> -1, den |-> 1]

\* No value yet (the memo has not been created).
NoValue == [kind |-> "none", num |-> 0, den |-> 1]

\* a / b on integers, with JavaScript's results for a zero divisor
Divide(a, b) ==
    IF b > 0 THEN Fin(a, b)
    ELSE IF b < 0 THEN Fin(-a, -b)
    ELSE IF a > 0 THEN PosInf
    ELSE IF a < 0 THEN NegInf
    ELSE NaN

\* t <= r and t >= r for a finite r; every comparison with NaN is false
LessEq(t, r) ==
    CASE t.kind = "fin"    -> t.num * r.den <= r.num * t.den
      [] t.kind = "neginf" -> TRUE
      [] OTHER             -> FALSE

GreaterEq(t, r) ==
    CASE t.kind = "fin"    -> t.num * r.den >= r.num * t.den
      [] t.kind = "posinf" -> TRUE
      [] OTHER             -> FALSE

\* Welcome.tsx animate(from, to, start, end, t), lines 22-32
animate(from, to, start, end, t) ==
    IF LessEq(t, start) THEN Fin(from, 1)
    ELSE IF GreaterEq(t, end) THEN Fin(to, 1)
    ELSE IF t.kind # "fin" THEN NaN
    ELSE LET n == (t.num * start.den - start.num * t.den) * end.den
             d == t.den * (end.num * start.den - start.num * end.den)
         IN  Fin(from * d + (to - from) * n, d)

\* createMemo(() => scroll() / (getWindow()?.innerHeight ?? 1)), window present
scrollPercentageMemo(s, h) == Divide(s, h)

\* createMemo(() => animate(6, 3, 0.1, 0.3, scrollPercentage()))
headingSizeMemo(sp) == animate(6, 3, Fin(1, 10), Fin(3, 10), sp)

addEventListener(ls, l) == ls \cup {l}

removeEventListener(ls, l) == ls \ {l}

\* Variant: the cleanup hands removeEventListener a new closure.
onCleanupCallbackNewClosure(ls) == removeEventListener(ls, "closure")

\* onCleanup(() => getWindow()?.removeEventListener("scroll", listener))
onCleanupCallback(ls) == removeEventListener(ls, "listener")

\* const listener = () => setScroll(getWindow()?.scrollY ?? 0)
listener(y, old) == y

InitWelcomeState ==
    /\ listeners = {}
    /\ welcomePc = "unmounted"
    /\ rendered = "none"
    /\ scroll = 0
    /\ scrollPercentage = NoValue
    /\ headingSize = NoValue

\* The static build has no window and does not mount the component.
InitNoWindow ==
    /\ hasWindow = FALSE
    /\ scrollY = 0
    /\ innerHeight = 0
    /\ InitWelcomeState

----------------------------------------------------------------------------
(* The build *)

InitPipeline ==
    /\ rssPc = "init"
    /\ rssPosts = <<>>
    /\ feed = NoFeed
    /\ pagesPc = "init"
    /\ staticPaths = <<>>
    /\ pages = <<>>
    /\ annotations = <<>>

InitBuild == mode \in Modes /\ InitPipeline /\ InitNoWindow

InitModes ==
    store \in Stores /\ mode \in BuildModes /\ InitPipeline /\ InitNoWindow

Init == store \in Stores /\ InitBuild

InitReading == store \in ReadingStores /\ InitBuild

\* rss.xml.ts line 4: const posts = await visiblePosts()
LoadRssModule ==
    /\ rssPc = "init"
    /\ LET r == visiblePosts(store, mode)
       IN  /\ rssPc' = IF r.ok THEN "loaded" ELSE "error"
           /\ rssPosts' = IF r.ok THEN r.posts ELSE <<>>
    /\ UNCHANGED <<store, mode, feed, pagesPc, staticPaths, pages, annotations,
                 welcomeVars>>

\* rss.xml.ts get(): rss({... items: posts.map(...)})
Get ==
    /\ rssPc = "loaded"
    /\ feed' = rssOptions(rssPosts)
    /\ rssPc' = "done"
    /\ UNCHANGED <<store, mode, rssPosts, pagesPc, staticPaths, pages, annotations,
                 welcomeVars>>

\* [slug].astro getStaticPaths(): (await visiblePosts()).map(...)
GetStaticPaths ==
    /\ pagesPc = "init"
    /\ LET r == visiblePosts(store, mode)
       IN  /\ pagesPc' = IF r.ok THEN "paths" ELSE "error"
           /\ staticPaths' = IF r.ok THEN getStaticPaths(r.posts) ELSE <<>>
    /\ UNCHANGED <<store, mode, rssPc, rssPosts, feed, pages, annotations,
                 welcomeVars>>

\* [slug].astro frontmatter and template, for the next static path
RenderPage ==
    /\ pagesPc = "paths"
    /\ Len(pages) < Len(staticPaths)
    /\ pages' = Append(pages, renderPage(staticPaths[Len(pages) + 1]))
    /\ annotations' = postRender(annotations, staticPaths[Len(pages) + 1].props.post)
    /\ UNCHANGED <<store, mode, rssPc, rssPosts, feed, pagesPc, staticPaths,
                 welcomeVars>>

Next == LoadRssModule \/ Get \/ GetStaticPaths \/ RenderPage

Spec == Init /\ [][Next]_vars

SpecReading == InitReading /\ [][Next]_vars

SpecModes == InitModes /\ [][Next]_vars

----------------------------------------------------------------------------
(* The Welcome component, in the browser (window present) or rendered at  *)
(* build time (no window)                                                 *)

InitWelcome ==
    /\ store = <<>> /\ mode = "production" /\ InitPipeline
    /\ hasWindow \in BOOLEAN
    /\ IF hasWindow
       THEN scrollY \in ScrollYs /\ innerHeight \in InnerHeights
       ELSE scrollY = 0 /\ innerHeight = 0
    /\ InitWelcomeState

\* Welcome(), lines 10-41 and the returned view
Mount ==
    /\ welcomePc = "unmounted"
    /\ scroll' = IF hasWindow THEN scrollY ELSE 0
    /\ IF ~hasWindow
       THEN /\ welcomePc' = "ssr"
            /\ rendered' = "null"
            /\ UNCHANGED <<listeners, scrollPercentage, headingSize>>
       ELSE /\ listeners' = addEventListener(listeners, "listener")
            /\ scrollPercentage' = scrollPercentageMemo(scroll', innerHeight)
            /\ headingSize' = headingSizeMemo(scrollPercentage')
            /\ welcomePc' = "mounted"
            /\ rendered' = "view"
    /\ UNCHANGED <<hasWindow, scrollY, innerHeight, pipelineVars>>

\* The window scrolls to y and dispatches "scroll" to its listeners; the
\* memos are recomputed when the signal's value changes.
ScrollEvent ==
    /\ hasWindow
    /\ \E y \in ScrollYs :
          /\ scrollY' = y
          /\ IF "listener" \in listeners
             THEN /\ scroll' = listener(y, scroll)
                  /\ IF scroll' # scroll
                     THEN /\ scrollPercentage' =
                                scrollPercentageMemo(scroll', innerHeight)
                          /\ headingSize' = headingSizeMemo(scrollPercentage')
                     ELSE UNCHANGED <<scrollPercentage, headingSize>>
             ELSE UNCHANGED <<scroll, scrollPercentage, headingSize>>
    /\ UNCHANGED <<hasWindow, innerHeight, listeners, welcomePc, rendered,
                   pipelineVars>>

\* The window is resized; the component has no resize listener.
Resize ==
    /\ hasWindow
    /\ \E h \in InnerHeights : innerHeight' = h
    /\ UNCHANGED <<hasWindow, scrollY, listeners, welcomePc, rendered, scroll,
                   scrollPercentage, headingSize, pipelineVars>>

\* The owner is disposed: the onCleanup callback runs.
Cleanup ==
    /\ welcomePc = "mounted"
    /\ listeners' = onCleanupCallback(listeners)
    /\ welcomePc' = "disposed"
    /\ UNCHANGED <<hasWindow, scrollY, innerHeight, rendered, scroll,
                   scrollPercentage, headingSize, pipelineVars>>

NextWelcome == Mount \/ ScrollEvent \/ Resize \/ Cleanup

SpecWelcome == InitWelcome /\ [][NextWelcome]_vars

----------------------------------------------------------------------------
(* Helpers of the properties *)

Occurs(p, seq) == \E i \in 1..Len(seq) : seq[i] = p

\* The publication policy as documented: draft, or development build.
Visible(p) == p.data.draft \/ mode = "development"

NoDuplicates(seq) == \A i, j \in 1..Len(seq) : seq[i] = seq[j] => i = j

\* out is obtained from in by deleting elements: some strictly increasing
\* map of positions carries out into in.
IsSubsequence(out, in) ==
    \E f \in [1..Len(out) -> 1..Len(in)] :
        /\ \A i \in 1..Len(out) : out[i] = in[f[i]]
        /\ \A i, j \in 1..Len(out) : i < j => f[i] < f[j]

PathPosts == [i \in 1..Len(staticPaths) |-> staticPaths[i].props.post]

FilterRanForRss == rssPc \in {"loaded", "done"}

FilterRanForPages == pagesPc = "paths"

----------------------------------------------------------------------------
(* C1: a post of the store is in the output of visiblePosts exactly when  *)
(* its draft flag is true or the build mode is development; in production *)
(* the output holds exactly the posts with draft = true.                  *)
C1_InclusionPolicy ==
    /\ FilterRanForRss =>
         \A i \in 1..Len(store) :
            Occurs(store[i], rssPosts)
               <=> (store[i].data.draft \/ mode = "development")
    /\ FilterRanForPages =>
         \A i \in 1..Len(store) :
            Occurs(store[i], PathPosts)
               <=> (store[i].data.draft \/ mode = "development")
    /\ (FilterRanForRss /\ mode = "production") =>
         /\ \A i \in 1..Len(rssPosts) : rssPosts[i].data.draft
         /\ \A i \in 1..Len(store) :
               ~store[i].data.draft => ~Occurs(store[i], rssPosts)

C1_Witness ==
    /\ mode = "production"
    /\ rssPc = "loaded"
    /\ \E i, j \in 1..Len(store) :
          /\ store[i].data.draft /\ ~store[j].data.draft
          /\ Occurs(store[i], rssPosts) /\ ~Occurs(store[j], rssPosts)

(* C2: the output of visiblePosts is an order-preserving subsequence of   *)
(* the store: every output post is in the store, none is duplicated, and  *)
(* output posts keep the relative order they have in the store.           *)
C2_OrderPreservingSubsequence ==
    /\ FilterRanForRss =>
         /\ IsSubsequence(rssPosts, store)
         /\ NoDuplicates(rssPosts)
    /\ FilterRanForPages =>
         /\ IsSubsequence(PathPosts, store)
         /\ NoDuplicates(PathPosts)

C2_Witness ==
    /\ rssPc = "loaded"
    /\ Len(store) = 3
    /\ Len(rssPosts) = 2
    /\ rssPosts[1] = store[1] /\ rssPosts[2] = store[3]
    /\ store[1].slug = "c" /\ store[3].slug = "a"

(* C3: in development mode visiblePosts returns the whole store, in the   *)
(* same order, whatever the draft flags.                                  *)
C3_DevelopmentKeepsAll ==
    mode = "development" =>
        /\ FilterRanForRss => rssPosts = store
        /\ FilterRanForPages => PathPosts = store

C3_Witness ==
    /\ mode = "development"
    /\ rssPc = "loaded" /\ pagesPc = "paths"
    /\ Len(store) = 3
    /\ ~store[1].data.draft /\ store[2].data.draft /\ ~store[3].data.draft
    /\ rssPosts = store

(* C4: the feed has one item per filtered post and nothing else; item i   *)
(* links to "blog/" followed by the slug of the i-th filtered post and    *)
(* carries that post's title, in the order of the filtered list.          *)
ExpectedLink ==
    [a |-> "blog/a", b |-> "blog/b", c |-> "blog/c", d |-> "blog/d"]

C4_RssItems ==
    rssPc = "done" =>
        /\ Len(feed.items) = Len(rssPosts)
        /\ \A i \in 1..Len(rssPosts) :
              /\ feed.items[i].link = ExpectedLink[rssPosts[i].slug]
              /\ feed.items[i].title = rssPosts[i].data.title

C4_Witness ==
    /\ rssPc = "done"
    /\ Len(rssPosts) = 3
    /\ [i \in 1..3 |-> rssPosts[i].slug] = <<"a", "b", "c">>
    /\ [i \in 1..3 |-> rssPosts[i].data.title] = <<"T1", "T2", "T3">>
    /\ [i \in 1..3 |-> feed.items[i].link] = <<"blog/a", "blog/b", "blog/c">>
    /\ [i \in 1..3 |-> feed.items[i].title] = <<"T1", "T2", "T3">>

(* C5: getStaticPaths yields exactly one detail page per visible post,    *)
(* keyed by the post's slug and carrying that post as props, and no page  *)
(* for a post the filter excluded.                                        *)
PathsOf(p) ==
    {i \in 1..Len(staticPaths) : staticPaths[i].params.slug = p.slug}

C5_OnePagePerVisiblePost ==
    pagesPc = "paths" =>
        /\ \A k \in 1..Len(store) :
              IF Visible(store[k])
              THEN /\ Cardinality(PathsOf(store[k])) = 1
                   /\ \A i \in PathsOf(store[k]) :
                         staticPaths[i].props.post = store[k]
              ELSE PathsOf(store[k]) = {}
        /\ \A i \in 1..Len(staticPaths) :
              \E k \in 1..Len(store) :
                  /\ staticPaths[i].params.slug = store[k].slug
                  /\ staticPaths[i].props.post = store[k]
        /\ \A i \in 1..Len(pages) :
              /\ pages[i].slug = staticPaths[i].params.slug
              /\ pages[i].post = staticPaths[i].props.post

C5_Witness ==
    /\ pagesPc = "paths"
    /\ mode = "production"
    /\ Len(store) = 3
    /\ Len(staticPaths) = 2
    /\ Len(pages) = 2
    /\ \E k \in 1..3 : ~store[k].data.draft /\ PathsOf(store[k]) = {}

(* C6: with zero visible posts (an empty store, or a store whose posts    *)
(* are all excluded) the feed document is still produced, with zero       *)
(* items, no detail page is produced, and neither renderer fails.         *)
NoVisiblePost == \A k \in 1..Len(store) : ~Visible(store[k])

C6_EmptyInput ==
    NoVisiblePost =>
        /\ rssPc # "error" /\ pagesPc # "error"
        /\ rssPc = "init" => ENABLED LoadRssModule
        /\ rssPc = "loaded" => ENABLED Get
        /\ pagesPc = "init" => ENABLED GetStaticPaths
        /\ rssPc = "done" =>
              /\ feed.items = <<>>
              /\ feed.title = "Brendonovich's Blog"
              /\ feed.site = SITE
        /\ pagesPc = "paths" => staticPaths = <<>> /\ pages = <<>>
        /\ ~ENABLED RenderPage

C6_Witness ==
    /\ Len(store) = 2
    /\ NoVisiblePost
    /\ rssPc = "done" /\ feed.items = <<>>
    /\ pagesPc = "paths" /\ staticPaths = <<>>

(* C7: the publish decision depends on (draft, mode) only: two posts with *)
(* the same draft flag under the same build mode get the same decision,   *)
(* whatever their other fields and whatever else the store holds.         *)
C7_DecisionDependsOnDraftAndMode ==
    /\ FilterRanForRss =>
         \A i, j \in 1..Len(store) :
            store[i].data.draft = store[j].data.draft =>
               (Occurs(store[i], rssPosts) <=> Occurs(store[j], rssPosts))
    /\ FilterRanForPages =>
         \A i, j \in 1..Len(store) :
            store[i].data.draft = store[j].data.draft =>
               (Occurs(store[i], PathPosts) <=> Occurs(store[j], PathPosts))
    /\ \A i \in 1..Len(store) : \A q \in Posts :
            store[i].data.draft = q.data.draft =>
               shouldPublish(store[i], mode) = shouldPublish(q, mode)

C7_Witness ==
    /\ mode = "production"
    /\ rssPc = "loaded" /\ pagesPc = "paths"
    /\ Len(store) = 3
    /\ \E i, j \in 1..3 :
          /\ i # j
          /\ ~store[i].data.draft /\ ~store[j].data.draft
          /\ store[i].data.title # store[j].data.title
          /\ store[i].data.date = "31 Dec 2022" /\ store[j].data.date = "someday"
          /\ ~Occurs(store[i], rssPosts) /\ ~Occurs(store[j], rssPosts)
    /\ \E k \in 1..3 : store[k].data.draft /\ Occurs(store[k], rssPosts)

(* C8: filtering never fails: for every store, the empty one included,    *)
(* and either build mode, visiblePosts completes with a (possibly empty)  *)
(* sequence of posts; the filter step has no error outcome.               *)
C8_FilterNeverFails ==
    /\ rssPc # "error" /\ pagesPc # "error"
    /\ rssPc = "init" => ENABLED LoadRssModule
    /\ pagesPc = "init" => ENABLED GetStaticPaths
    /\ visiblePosts(store, mode).ok
    /\ FilterRanForRss => \A i \in 1..Len(rssPosts) : rssPosts[i] \in Posts
    /\ FilterRanForPages => \A i \in 1..Len(PathPosts) : PathPosts[i] \in Posts

C8_Witness ==
    /\ store = <<>>
    /\ rssPc = "loaded" /\ rssPosts = <<>>
    /\ pagesPc = "paths" /\ staticPaths = <<>>

(* C9: reading-time floor: a body with fewer words than the reading-speed *)
(* constant, the empty body included, is reported as exactly 1 minute;    *)
(* no reading time is 0 or negative.                                      *)
C9_ReadingTimeFloor ==
    \A i \in 1..Len(pages) :
        /\ pages[i].words = wordCount(staticPaths[i].props.post.body)
        /\ pages[i].minutes >= 1
        /\ pages[i].words < WordsPerMinute =>
              /\ pages[i].minutes = 1
              /\ pages[i].readingTime = "1 min read"

C9_Witness ==
    /\ Len(pages) = 2
    /\ pages[1].words = 0 /\ pages[1].readingTime = "1 min read"
    /\ pages[2].words = 199 /\ pages[2].readingTime = "1 min read"

(* C10: reading time is monotonic in the word count: of two bodies, the   *)
(* one with fewer words never has the longer reading time.                *)
C10_ReadingTimeMonotonic ==
    \A i, j \in 1..Len(pages) :
        pages[i].words < pages[j].words =>
            /\ pages[i].minutes <= pages[j].minutes
            /\ pages[i].readingTime = ToString(pages[i].minutes) \o " min read"
            /\ pages[j].readingTime = ToString(pages[j].minutes) \o " min read"

C10_Witness ==
    /\ Len(pages) = 2
    /\ pages[1].words = 201 /\ pages[1].minutes = 2
    /\ pages[2].words = 200 /\ pages[2].minutes = 1

(* C11: in production a post flagged draft = true is not published (it is *)
(* neither an RSS item nor a detail page), while a post with              *)
(* draft = false is published.                                            *)
C11_DraftsHiddenInProduction ==
    mode = "production" =>
        /\ rssPc = "done" =>
              \A k \in 1..Len(store) :
                 (\E i \in 1..Len(feed.items) :
                      feed.items[i].link = ExpectedLink[store[k].slug])
                    <=> ~store[k].data.draft
        /\ pagesPc = "paths" =>
              \A k \in 1..Len(store) :
                 (PathsOf(store[k]) # {}) <=> ~store[k].data.draft

(* C12 (as stated): every post is annotated with its reading time exactly *)
(* once at load, before the filter runs, so every post handed to a        *)
(* renderer already carries readingTime.                                  *)
TimesAnnotated(slug) ==
    Cardinality({i \in 1..Len(annotations) : annotations[i] = slug})

PostsAsLoaded ==
    /\ \A i \in 1..Len(rssPosts) : Occurs(rssPosts[i], store)
    /\ \A i \in 1..Len(staticPaths) : Occurs(staticPaths[i].props.post, store)
    /\ \A i \in 1..Len(pages) :
          /\ Occurs(pages[i].post, store)
          /\ pages[i].title = pages[i].post.data.title
          /\ pages[i].byline = pages[i].post.data.byline
          /\ pages[i].date = pages[i].post.data.date
    /\ rssPc = "done" =>
          \A i \in 1..Len(feed.items) :
             feed.items[i].title = rssPosts[i].data.title

C13_PostsNeverMutated == []PostsAsLoaded /\ [][store' = store]_vars

C13_Witness ==
    /\ rssPc = "done"
    /\ pagesPc = "paths"
    /\ Len(store) = 3
    /\ Len(staticPaths) = 2
    /\ Len(pages) = 2
    /\ Len(feed.items) = 2

(* C14: a visible post whose date does not parse still gets its feed      *)
(* item, with an invalid pubDate: the item is neither skipped nor given   *)
(* a substitute date, so the feed has as many items as there are visible  *)
(* posts.                                                                 *)
VisibleCount == Cardinality({k \in 1..Len(store) : Visible(store[k])})

C14_InvalidDateKept ==
    rssPc = "done" =>
        /\ Len(feed.items) = VisibleCount
        /\ Len(feed.items) = Len(rssPosts)
        /\ \A i \in 1..Len(rssPosts) :
              IF rssPosts[i].data.date = "someday"
              THEN feed.items[i].pubDate = [valid |-> FALSE, of |-> "Invalid Date"]
              ELSE feed.items[i].pubDate = [valid |-> TRUE, of |-> rssPosts[i].data.date]

C14_Witness ==
    /\ rssPc = "done"
    /\ VisibleCount = 2
    /\ Len(feed.items) = 2
    /\ rssPosts[1].data.date = "someday"
    /\ ~feed.items[1].pubDate.valid
    /\ feed.items[2].pubDate.valid

(* C15: slugs being unique in the store, no two feed items have the same  *)
(* link and no two detail pages have the same slug parameter.             *)
C15_UniqueOutputs ==
    /\ rssPc = "done" =>
          \A i, j \in 1..Len(feed.items) :
             feed.items[i].link = feed.items[j].link => i = j
    /\ \A i, j \in 1..Len(staticPaths) :
          staticPaths[i].params.slug = staticPaths[j].params.slug => i = j
    /\ \A i, j \in 1..Len(pages) : pages[i].slug = pages[j].slug => i = j

C15_Witness ==
    /\ rssPc = "done" /\ pagesPc = "paths"
    /\ Len(feed.items) = 3 /\ Len(staticPaths) = 3 /\ Len(pages) = 3
    /\ feed.items[1].title = feed.items[2].title
    /\ feed.items[1].link # feed.items[2].link
    /\ staticPaths[1].params.slug # staticPaths[2].params.slug

(* C16: within one build the two renderers agree: the slugs behind the    *)
(* feed items are the slugs of the detail pages, in the same order, so    *)
(* every feed link blog/<slug> has its page and every page is in the feed.*)
C16_FeedMatchesPages ==
    (rssPc = "done" /\ pagesPc = "paths") =>
        /\ Len(feed.items) = Len(staticPaths)
        /\ \A i \in 1..Len(staticPaths) :
              feed.items[i].link = ExpectedLink[staticPaths[i].params.slug]
        /\ [i \in 1..Len(rssPosts) |-> rssPosts[i].slug]
              = [i \in 1..Len(staticPaths) |-> staticPaths[i].params.slug]

C16_Witness ==
    /\ rssPc = "done" /\ pagesPc = "paths"
    /\ mode = "production"
    /\ Len(store) = 3
    /\ Len(feed.items) = 2 /\ Len(staticPaths) = 2
    /\ feed.items[1].link = "blog/" \o staticPaths[1].params.slug
    /\ feed.items[2].link = "blog/" \o staticPaths[2].params.slug

(* C17: any mode value other than the exact string "development" is       *)
(* treated as production is: only the posts with draft = true are         *)
(* included.                                                              *)
C17_OtherModesLikeProduction ==
    mode # "development" =>
        /\ FilterRanForRss =>
              \A k \in 1..Len(store) :
                 Occurs(store[k], rssPosts) <=> store[k].data.draft
        /\ FilterRanForPages =>
              \A k \in 1..Len(store) :
                 Occurs(store[k], PathPosts) <=> store[k].data.draft

C17_Witness ==
    /\ mode = "Development"
    /\ rssPc = "loaded" /\ pagesPc = "paths"
    /\ Len(store) = 2
    /\ store[1].data.draft /\ ~store[2].data.draft
    /\ rssPosts = <<store[1]>>
    /\ PathPosts = <<store[1]>>

(* C18: animate(from, to, start, end, t) with start < end is clamped: it  *)
(* is from for t <= start, to for t >= end and between the two otherwise, *)
(* changing monotonically with t; so after any sequence of scroll events  *)
(* the heading size is within [3, 6] rem, is 6 while scroll/innerHeight   *)
(* <= 0.1 and is 3 once it is >= 0.3.                                     *)
Within(v, lo, hi) ==
    v.kind = "fin" /\ lo * v.den <= v.num /\ v.num <= hi * v.den

IsNumber(v, n) == v.kind = "fin" /\ v.num = n * v.den

MemosLive == welcomePc \in {"mounted", "disposed"}

C18_HeadingSizeClamped ==
    MemosLive =>
        /\ headingSize = animate(6, 3, Fin(1, 10), Fin(3, 10), scrollPercentage)
        /\ Within(headingSize, 3, 6)
        /\ LessEq(scrollPercentage, Fin(1, 10)) => IsNumber(headingSize, 6)
        /\ GreaterEq(scrollPercentage, Fin(3, 10)) => IsNumber(headingSize, 3)
        /\ \A a, b \in ScrollYs :
              (a <= b /\ innerHeight > 0) =>
                 LET va == headingSizeMemo(scrollPercentageMemo(a, innerHeight))
                     vb == headingSizeMemo(scrollPercentageMemo(b, innerHeight))
                 IN  /\ Within(va, 3, 6) /\ Within(vb, 3, 6)
                     /\ va.num * vb.den >= vb.num * va.den

(* C19: with a window, mounting registers exactly one scroll listener and *)
(* every scroll event before cleanup sets the scroll signal to the        *)
(* window's current scrollY; after cleanup the listener is removed and    *)
(* scroll events no longer change the signal; without a window no         *)
(* listener is registered and the component renders nothing.              *)
ListenerLifecycle ==
    /\ Cardinality(listeners) <= 1
    /\ welcomePc = "mounted" =>
          /\ hasWindow
          /\ listeners = {"listener"}
          /\ scroll = scrollY
          /\ rendered = "view"
    /\ welcomePc = "disposed" => listeners = {}
    /\ welcomePc = "ssr" => ~hasWindow /\ rendered = "null"
    /\ ~hasWindow => listeners = {} /\ rendered # "view" /\ scroll = 0
    /\ welcomePc = "unmounted" => listeners = {} /\ rendered = "none"

C19_ScrollListenerLifecycle ==
    /\ []ListenerLifecycle
    /\ [][welcomePc = "disposed" => scroll' = scroll]_vars
    /\ [][(welcomePc = "mounted" /\ welcomePc' = "mounted") =>
             scroll' = scrollY']_vars

C19_Witness ==
    /\ welcomePc = "disposed"
    /\ listeners = {}
    /\ scroll = 30
    /\ scrollY = 90
    /\ rendered = "view"

====
